---------------------------- MODULE Spec2Model ----------------------------
(***************************************************************************)
(* Model of the ZSEL mail provisioner (src/provisioner/src/main.py).       *)
(*                                                                         *)
(* FreeIPAListener.watch_users is one sequential coroutine; `pc` is its    *)
(* position.  The LDAP directory and the mail backend are the environment: *)
(* every call into them either returns or raises, and the directory is     *)
(* edited by its other clients at any time.                                *)
(*                                                                         *)
(* MailboxManager's methods are stubs that only log; `stage` records, per  *)
(* uid, the last backend operation that returned, named as the mailbox     *)
(* stage it stands for.                                                    *)
(***************************************************************************)
EXTENDS Integers, Sequences, FiniteSets, TLC

VARIABLES
    pc,           \* position of watch_users
    connection,   \* self.connection is set
    ouIdx,        \* index into watch_ous of the for-loop of _process_new_users
    entries,      \* entries of self.connection.entries not yet iterated
    email,        \* local `email` of _process_new_users ({} when unset)
    ouOf,         \* directory: organizational unit of each person entry
    mail,         \* directory: values of the mail attribute of each entry
    locked,       \* directory: nsAccountLock=TRUE
    stage,        \* backend: mailbox stage per uid
    quota,        \* backend: quota the mailbox was last created with (0: none)
    expired,      \* uids whose archive is older than the retention period
    touched,      \* uids whose entry was edited since their mailbox was archived
    createCount,  \* create_mailbox calls per uid in the current cycle
    archCount,    \* archive_mailbox calls per uid in the current cycle
    delCount,     \* delete_mailbox calls per uid in the current cycle
    passes,       \* passes of the current cycle that were entered
    failedQuery,  \* passes whose directory search raised in the current cycle
    failedIds,    \* uids whose backend or directory call failed in the cycle
    startMail,    \* mail as it was when the current cycle started
    startStage,   \* stage as it was when the current cycle started
    edited,       \* uids whose mail attribute another LDAP client changed
                  \* since the current cycle started
    lockedAtQuery,\* uids that were locked with a mail attribute when the
                  \* disabled search of the current cycle was answered
    errorResult,  \* a search of the current cycle got an error result
                  \* (busy, sizeLimitExceeded, ...) that left out entries
                  \* matching its filter: none or only some of them were
                  \* returned, and nothing was raised
    ou_arg,       \* argument `ou` of a call of _detect_role
    role_ret      \* what that call returned ("none" before it returns)

vars == <<pc, connection, ouIdx, entries, email, ouOf, mail, locked, stage,
          quota, expired, touched, createCount, archCount, delCount, passes,
          failedQuery, failedIds, startMail, startStage, edited,
          lockedAtQuery, errorResult, ou_arg, role_ret>>

callVars  == <<ou_arg, role_ret>>
dirVars   == <<ouOf, mail, locked>>
cycleVars == <<createCount, archCount, delCount, passes, failedQuery,
               failedIds, startMail, startStage, edited, lockedAtQuery,
               errorResult>>

----------------------------------------------------------------------------
(* Bounds *)

\* Per-cycle call counters saturate here.
MaxDispatch == 2

Min(a, b) == IF a < b THEN a ELSE b

----------------------------------------------------------------------------
(* Strings that the code inspects are sequences of characters. *)

S_uczniowie     == <<"u","c","z","n","i","o","w","i","e">>
S_nauczyciele   == <<"n","a","u","c","z","y","c","i","e","l","e">>
S_administracja == <<"a","d","m","i","n","i","s","t","r","a","c","j","a">>
S_dyrekcja      == <<"d","y","r","e","k","c","j","a">>
S_ou            == <<"o","u","=">>

\* Python `needle in hay` on str
Contains(needle, hay) ==
    \E k \in 0..(Len(hay) - Len(needle)) :
        SubSeq(hay, k + 1, k + Len(needle)) = needle

\* class UserRole
UCZEN         == "uczen"
NAUCZYCIEL    == "nauczyciel"
ADMINISTRACJA == "administracja"
DYREKCJA      == "dyrekcja"
UserRole      == {UCZEN, NAUCZYCIEL, ADMINISTRACJA, DYREKCJA}

\* class MailConfig.  Quotas are in KiB (the source's bytes divided by 1024).
domain           == "zsel.opole.pl"
maildir_base     == "/var/mail/vhosts"
quota_uczen      == 1 * 1024 * 1024
quota_nauczyciel == 5 * 1024 * 1024
quota_admin      == 10 * 1024 * 1024
quota_dyrekcja   == 20 * 1024 * 1024

\* watch_ous with ou=dyrekcja added to the defaults
watch_ous_with_dyrekcja ==
    << S_ou \o S_uczniowie, S_ou \o S_nauczyciele, S_ou \o S_administracja,
       S_ou \o S_dyrekcja >>

\* class FreeIPAConfig
watch_ous == << S_ou \o S_uczniowie, S_ou \o S_nauczyciele,
                S_ou \o S_administracja >>

\* _get_quota with the teacher's entry pointing at the administration's quota
_get_quota_teacher_as_admin(role) ==
    CASE role = UCZEN         -> quota_uczen
      [] role = NAUCZYCIEL    -> quota_admin
      [] role = ADMINISTRACJA -> quota_admin
      [] role = DYREKCJA      -> quota_dyrekcja
      [] OTHER                -> quota_uczen

\* MailboxManager._get_quota
_get_quota(role) ==
    CASE role = UCZEN         -> quota_uczen
      [] role = NAUCZYCIEL    -> quota_nauczyciel
      [] role = ADMINISTRACJA -> quota_admin
      [] role = DYREKCJA      -> quota_dyrekcja
      [] OTHER                -> quota_uczen

\* _detect_role comparing the unit's name with == where the code uses `in`
_detect_role_equal(ou) ==
    IF ou = S_uczniowie THEN UCZEN
    ELSE IF ou = S_nauczyciele THEN NAUCZYCIEL
    ELSE IF ou = S_administracja THEN ADMINISTRACJA
    ELSE IF ou = S_dyrekcja THEN DYREKCJA
    ELSE UCZEN

\* FreeIPAListener._detect_role
_detect_role(ou) ==
    IF Contains(S_uczniowie, ou) THEN UCZEN
    ELSE IF Contains(S_nauczyciele, ou) THEN NAUCZYCIEL
    ELSE IF Contains(S_administracja, ou) THEN ADMINISTRACJA
    ELSE IF Contains(S_dyrekcja, ou) THEN DYREKCJA
    ELSE UCZEN

\* f"{uid}@{self.config.domain}"
EmailOf(uid) == <<uid, "@", domain>>

----------------------------------------------------------------------------
(* The directory under observation *)

Ids == {"anowak", "jkowalski"}

\* Where the two person entries may live: both in one watched unit, or one
\* in a watched unit and the other in a unit that is not watched.
OuLayouts ==
    { [anowak |-> S_ou \o S_uczniowie,    jkowalski |-> S_ou \o S_uczniowie],
      [anowak |-> S_ou \o S_nauczyciele,  jkowalski |-> S_ou \o S_dyrekcja],
      [anowak |-> S_ou \o S_administracja, jkowalski |-> S_ou \o S_dyrekcja] }

Stages == {"Unprovisioned", "Active", "Archived", "Deleted"}

Ord(s) ==
    CASE s = "Unprovisioned" -> 0
      [] s = "Active"        -> 1
      [] s = "Archived"      -> 2
      [] s = "Deleted"       -> 3

\* All orders in which a search may return the set S of entries.
Orderings(S) ==
    {s \in [1..Cardinality(S) -> S] : \A a, b \in 1..Cardinality(S) :
                                          a # b => s[a] # s[b]}

\* The search of _process_new_users without the (!(mail=*)) test
NewUsersFilter_any_mail(ou) == {i \in Ids : ouOf[i] = ou}

\* (&(objectClass=person)(!(mail=*))) under f"{ou},{base_dn}", SUBTREE
NewUsersFilter(ou) == {i \in Ids : ouOf[i] = ou /\ mail[i] = {}}

\* The search of _process_disabled_users without the (nsAccountLock=TRUE) test
DisabledUsersFilter_any_lock == {i \in Ids : mail[i] # {}}

\* (&(objectClass=person)(nsAccountLock=TRUE)(mail=*)) under base_dn, SUBTREE
DisabledUsersFilter == {i \in Ids : locked[i] /\ mail[i] # {}}

Zero == [i \in Ids |-> 0]

Bump(f, i) == [f EXCEPT ![i] = Min(f[i] + 1, MaxDispatch)]

----------------------------------------------------------------------------
(* Backend: MailboxManager *)

\* create_mailbox with the address built from maildir_base instead of domain
create_mailbox_wrong_domain(uid, role) ==
    /\ email' = {<<uid, "@", maildir_base>>}
    /\ stage' = [stage EXCEPT ![uid] = "Active"]
    /\ quota' = [quota EXCEPT ![uid] = _get_quota(role)]
    /\ expired' = expired \ {uid}
    /\ touched' = touched \ {uid}
    /\ createCount' = Bump(createCount, uid)

\* create_mailbox(uid, role), when it returns: the caller's `email` is the
\* address f"{uid}@{domain}" and the mailbox exists with the role's quota
create_mailbox(uid, role) ==
    /\ email' = {EmailOf(uid)}
    /\ stage' = [stage EXCEPT ![uid] = "Active"]
    /\ quota' = [quota EXCEPT ![uid] = _get_quota(role)]
    /\ expired' = expired \ {uid}
    /\ touched' = touched \ {uid}
    /\ createCount' = Bump(createCount, uid)

\* archive_mailbox(uid), when it returns
archive_mailbox(uid) ==
    /\ stage' = [stage EXCEPT ![uid] = "Archived"]
    /\ touched' = touched \ {uid}
    /\ archCount' = Bump(archCount, uid)
    /\ UNCHANGED <<quota, expired>>

\* delete_mailbox(uid), when it returns
delete_mailbox(uid) ==
    /\ stage' = [stage EXCEPT ![uid] = "Deleted"]
    /\ expired' = expired \ {uid}
    /\ delCount' = Bump(delCount, uid)
    /\ UNCHANGED <<quota, touched>>

----------------------------------------------------------------------------
(* FreeIPAListener.watch_users *)

LoopInit ==
    /\ pc = "init"
    /\ connection = FALSE
    /\ ouIdx = 1
    /\ entries = <<>>
    /\ email = {}
    /\ ouOf \in OuLayouts
    /\ mail = [i \in Ids |-> {}]
    /\ locked \in [Ids -> BOOLEAN]
    /\ stage = [i \in Ids |-> "Unprovisioned"]
    /\ quota = Zero
    /\ expired = {}
    /\ touched = {}
    /\ createCount = Zero
    /\ archCount = Zero
    /\ delCount = Zero
    /\ passes = {}
    /\ failedQuery = {}
    /\ failedIds = {}
    /\ startMail = [i \in Ids |-> {}]
    /\ startStage = [i \in Ids |-> "Unprovisioned"]
    /\ edited = {}
    /\ lockedAtQuery = {}
    /\ errorResult = FALSE

\* The state after FreeIPAListener.__init__; no call of _detect_role yet
Init ==
    /\ LoopInit
    /\ ou_arg = <<>>
    /\ role_ret = "none"

\* `while True: try:` -- a cycle starts with the call of _process_new_users
BeginCycle ==
    /\ pc' = "new_search"
    /\ ouIdx' = 1
    /\ entries' = <<>>
    /\ email' = {}
    /\ createCount' = Zero
    /\ archCount' = Zero
    /\ delCount' = Zero
    /\ passes' = {"new"}
    /\ failedQuery' = {}
    /\ failedIds' = {}
    /\ startMail' = mail
    /\ startStage' = stage
    /\ edited' = {}
    /\ lockedAtQuery' = {}
    /\ errorResult' = FALSE

\* The except clause starting the next sweep at once, without line 190
Caught_restart ==
    /\ pc' = "new_search"
    /\ ouIdx' = 1
    /\ entries' = <<>>
    /\ email' = {}

\* `except Exception as e: logger.error(...)`, then line 190
Caught ==
    /\ pc' = "cycle_end"
    /\ ouIdx' = 1
    /\ entries' = <<>>
    /\ email' = {}

\* lines 172-173 and connect(): auto_bind=True raises when the bind fails, and
\* nothing in watch_users catches it
connect ==
    /\ pc = "init"
    /\ \/ /\ connection' = TRUE
          /\ BeginCycle
       \/ /\ pc' = "crashed"
          /\ UNCHANGED <<connection, ouIdx, entries, email, cycleVars>>
    /\ UNCHANGED <<callVars, dirVars, stage, quota, expired, touched>>

\* Where _process_new_users goes with `es` left to iterate for watch_ous[k].
\* The local `email` keeps the last address until the function returns.
_process_new_users_next(es, k) ==
    IF es # <<>> THEN
        /\ pc' = "new_create" /\ ouIdx' = k /\ entries' = es
        /\ UNCHANGED <<passes, email>>
    ELSE IF k < Len(watch_ous) THEN
        /\ pc' = "new_search" /\ ouIdx' = k + 1 /\ entries' = <<>>
        /\ UNCHANGED <<passes, email>>
    ELSE
        /\ pc' = "disabled_search" /\ ouIdx' = 1 /\ entries' = <<>>
        /\ email' = {}
        /\ passes' = passes \cup {"disabled"}

\* The answers an error result can leave in connection.entries for a
\* filter that S matches: none of S (search() returns False) or, when the
\* server's size limit cut the answer short, some of S (search() returns
\* True); never all of S.
PartialAnswers(S) == UNION {Orderings(T) : T \in (SUBSET S) \ {S}}

\* lines 194-202: the search of one watched OU.  The connection is made
\* without raise_exceptions, so search() either fills connection.entries
\* with every match, or gets an error result and nothing is raised (the
\* return value is not looked at: the for-loop at line 204 iterates over
\* the entries that came, if any), or raises.  An error result for a filter
\* that nothing matches leaves the loop where an empty answer leaves it,
\* and is the first outcome.
_process_new_users_search ==
    /\ pc = "new_search"
    /\ \/ /\ \E es \in Orderings(NewUsersFilter(watch_ous[ouIdx])) :
                _process_new_users_next(es, ouIdx)
          /\ UNCHANGED <<failedQuery, errorResult>>
       \/ /\ \E es \in PartialAnswers(NewUsersFilter(watch_ous[ouIdx])) :
                _process_new_users_next(es, ouIdx)
          /\ errorResult' = TRUE
          /\ UNCHANGED failedQuery
       \/ /\ Caught
          /\ failedQuery' = failedQuery \cup {"new"}
          /\ UNCHANGED <<passes, errorResult>>
    /\ UNCHANGED <<callVars, connection, dirVars, stage, quota, expired,
                   touched, createCount, archCount, delCount, failedIds,
                   startMail, startStage, edited, lockedAtQuery>>

\* lines 205-211: create the mailbox of the current entry
_process_new_users_create ==
    /\ pc = "new_create"
    /\ LET uid  == Head(entries)
           role == _detect_role(watch_ous[ouIdx])
       IN \/ /\ create_mailbox(uid, role)
             /\ pc' = "new_modify"
             /\ UNCHANGED <<ouIdx, entries, failedIds>>
          \/ /\ Caught
             /\ failedIds' = failedIds \cup {uid}
             /\ UNCHANGED <<stage, quota, expired, touched, createCount>>
    /\ UNCHANGED <<callVars, connection, dirVars, archCount, delCount, passes,
                   failedQuery, startMail, startStage, edited, lockedAtQuery,
                   errorResult>>

\* _update_mail_attribute writing to every entry still held in the result
\* list, not only to user_dn
_update_mail_attribute_all_entries(uid, value) ==
    mail' = [i \in Ids |->
                IF \E k \in 1..Len(entries) : entries[k] = i THEN value
                ELSE mail[i]]

\* _update_mail_attribute: modify(user_dn, {'mail': [(MODIFY_REPLACE, [email])]})
_update_mail_attribute(uid, value) ==
    mail' = [mail EXCEPT ![uid] = value]

\* line 214: write the address back; modify may apply, return False without
\* applying, raise without applying, or raise after the server applied the
\* change (the response is lost)
_process_new_users_modify ==
    /\ pc = "new_modify"
    /\ LET uid == Head(entries)
       IN \/ /\ _update_mail_attribute(uid, email)
             /\ _process_new_users_next(Tail(entries), ouIdx)
             /\ UNCHANGED failedIds
          \/ /\ UNCHANGED mail
             /\ _process_new_users_next(Tail(entries), ouIdx)
             /\ failedIds' = failedIds \cup {uid}
          \/ /\ UNCHANGED <<mail, passes>>
             /\ Caught
             /\ failedIds' = failedIds \cup {uid}
          \/ /\ _update_mail_attribute(uid, email)
             /\ Caught
             /\ failedIds' = failedIds \cup {uid}
             /\ UNCHANGED passes
    /\ UNCHANGED <<callVars, connection, ouOf, locked, stage, quota, expired, touched,
                   createCount, archCount, delCount, failedQuery, startMail,
                   startStage, edited, lockedAtQuery, errorResult>>

\* Where _process_disabled_users goes with `es` left to iterate
_process_disabled_users_next(es) ==
    IF es # <<>> THEN
        /\ pc' = "disabled_archive" /\ entries' = es
        /\ UNCHANGED passes
    ELSE
        /\ pc' = "aliases" /\ entries' = <<>>
        /\ passes' = passes \cup {"aliases"}

\* lines 218-226: the search for locked entries with a mail attribute; like
\* the search of _process_new_users it is answered in full, or gets an error
\* result that leaves none or some of the entries, or raises.  A search that
\* returned entries was answered for lockedAtQuery.
_process_disabled_users_search ==
    /\ pc = "disabled_search"
    /\ \/ /\ \E es \in Orderings(DisabledUsersFilter) :
                _process_disabled_users_next(es)
          /\ lockedAtQuery' = {i \in Ids : locked[i] /\ mail[i] # {}}
          /\ UNCHANGED <<ouIdx, email, failedQuery, errorResult>>
       \/ /\ \E es \in PartialAnswers(DisabledUsersFilter) :
                /\ _process_disabled_users_next(es)
                /\ lockedAtQuery' =
                       IF es = <<>> THEN lockedAtQuery
                       ELSE {i \in Ids : locked[i] /\ mail[i] # {}}
          /\ errorResult' = TRUE
          /\ UNCHANGED <<ouIdx, email, failedQuery>>
       \/ /\ Caught
          /\ failedQuery' = failedQuery \cup {"disabled"}
          /\ UNCHANGED <<passes, lockedAtQuery, errorResult>>
    /\ UNCHANGED <<callVars, connection, dirVars, stage, quota, expired,
                   touched, createCount, archCount, delCount, failedIds,
                   startMail, startStage, edited>>

\* _process_disabled_users calling delete_mailbox where it calls archive_mailbox
_process_disabled_users_dispatch_delete(uid) ==
    /\ delete_mailbox(uid)
    /\ UNCHANGED archCount

\* What _process_disabled_users asks of the backend for one entry (line 235)
_process_disabled_users_dispatch(uid) ==
    /\ archive_mailbox(uid)
    /\ UNCHANGED delCount

\* lines 228-235: archive the mailbox of the current entry
_process_disabled_users_archive ==
    /\ pc = "disabled_archive"
    /\ LET uid == Head(entries)
       IN \/ /\ _process_disabled_users_dispatch(uid)
             /\ _process_disabled_users_next(Tail(entries))
             /\ UNCHANGED <<ouIdx, email, failedIds>>
          \/ /\ Caught
             /\ failedIds' = failedIds \cup {uid}
             /\ UNCHANGED <<stage, quota, expired, touched, archCount,
                            delCount, passes>>
    /\ UNCHANGED <<callVars, connection, dirVars, createCount, failedQuery, startMail,
                   startStage, edited, lockedAtQuery, errorResult>>

\* _update_group_aliases: `pass`
_update_group_aliases ==
    /\ pc = "aliases"
    /\ pc' = "cycle_end"
    /\ UNCHANGED <<callVars, connection, ouIdx, entries, email, dirVars, stage, quota,
                   expired, touched, cycleVars>>

\* line 190: await asyncio.sleep(60) is entered
sleep_call ==
    /\ pc = "cycle_end"
    /\ pc' = "sleep"
    /\ createCount' = Zero
    /\ archCount' = Zero
    /\ delCount' = Zero
    /\ passes' = {}
    /\ failedQuery' = {}
    /\ failedIds' = {}
    /\ startMail' = mail
    /\ startStage' = stage
    /\ edited' = {}
    /\ lockedAtQuery' = {}
    /\ errorResult' = FALSE
    /\ UNCHANGED <<callVars, connection, ouIdx, entries, email, dirVars, stage, quota,
                   expired, touched>>

\* line 190 returns and the while loop starts the next cycle
sleep_return ==
    /\ pc = "sleep"
    /\ BeginCycle
    /\ UNCHANGED <<callVars, connection, dirVars, stage, quota, expired, touched>>

----------------------------------------------------------------------------
(* Environment: the other clients of the directory (its administrators)   *)
(* and the passing of time.  The directory is a separate server and the   *)
(* loop holds no lock on it, so an edit can land between any two of the   *)
(* loop's requests.                                                       *)

\* The loop is inside a cycle: between the start of the try body and the
\* call of asyncio.sleep
InCycle == pc \in {"new_search", "new_create", "new_modify", "disabled_search",
                   "disabled_archive", "aliases", "cycle_end"}

\* Another client has changed the mail attribute of i
MailEdit(i) == edited' = IF InCycle THEN edited \cup {i} ELSE edited

Touch(i) == touched' = IF stage[i] = "Archived" THEN touched \cup {i}
                       ELSE touched

AdminLock(i) ==
    /\ ~locked[i]
    /\ locked' = [locked EXCEPT ![i] = TRUE]
    /\ Touch(i)
    /\ UNCHANGED <<callVars, pc, connection, ouIdx, entries, email, ouOf, mail, stage,
                   quota, expired, cycleVars>>

AdminUnlock(i) ==
    /\ locked[i]
    /\ locked' = [locked EXCEPT ![i] = FALSE]
    /\ Touch(i)
    /\ UNCHANGED <<callVars, pc, connection, ouIdx, entries, email, ouOf, mail, stage,
                   quota, expired, cycleVars>>

AdminSetMail(i) ==
    /\ mail[i] = {}
    /\ mail' = [mail EXCEPT ![i] = {EmailOf(i)}]
    /\ Touch(i)
    /\ MailEdit(i)
    /\ UNCHANGED <<callVars, pc, connection, ouIdx, entries, email, ouOf, locked, stage,
                   quota, expired, createCount, archCount, delCount, passes,
                   failedQuery, failedIds, startMail, startStage,
                   lockedAtQuery, errorResult>>

AdminClearMail(i) ==
    /\ mail[i] # {}
    /\ mail' = [mail EXCEPT ![i] = {}]
    /\ Touch(i)
    /\ MailEdit(i)
    /\ UNCHANGED <<callVars, pc, connection, ouIdx, entries, email, ouOf, locked, stage,
                   quota, expired, createCount, archCount, delCount, passes,
                   failedQuery, failedIds, startMail, startStage,
                   lockedAtQuery, errorResult>>

\* The retention period of an archived mailbox runs out
RetentionElapses(i) ==
    /\ stage[i] = "Archived"
    /\ i \notin expired
    /\ expired' = expired \cup {i}
    /\ UNCHANGED <<callVars, pc, connection, ouIdx, entries, email, dirVars, stage,
                   quota, touched, cycleVars>>

watch_users ==
    \/ connect
    \/ _process_new_users_search
    \/ _process_new_users_create
    \/ _process_new_users_modify
    \/ _process_disabled_users_search
    \/ _process_disabled_users_archive
    \/ _update_group_aliases
    \/ sleep_call
    \/ sleep_return

Env ==
    \E i \in Ids :
        \/ AdminLock(i)
        \/ AdminUnlock(i)
        \/ AdminSetMail(i)
        \/ AdminClearMail(i)
        \/ RetentionElapses(i)

Next == watch_users \/ Env

Spec == Init /\ [][Next]_vars

TypeOK ==
    /\ pc \in {"init", "crashed", "stopped", "new_search", "new_create", "new_modify",
               "disabled_search", "disabled_archive", "aliases", "cycle_end",
               "sleep"}
    /\ connection \in BOOLEAN
    /\ ouIdx \in 1..Len(watch_ous)
    /\ \A k \in 1..Len(entries) : entries[k] \in Ids
    /\ \A i \in Ids : stage[i] \in Stages /\ mail[i] \subseteq {EmailOf(i)}
    /\ expired \subseteq Ids /\ touched \subseteq Ids
    /\ edited \subseteq Ids /\ lockedAtQuery \subseteq Ids
    /\ errorResult \in BOOLEAN


----------------------------------------------------------------------------
(* _detect_role called on organizational-unit strings of any shape *)

\* Unit strings are concatenations of at most MaxParts of these pieces
MaxParts == 3

OuParts ==
    { S_ou, S_uczniowie, S_nauczyciele, S_administracja, S_dyrekcja,
      <<"u","c","z","n","i","o","w","i">>, <<"e">>, <<"U">>, <<",">> }

RECURSIVE Concat(_)
Concat(parts) ==
    IF parts = <<>> THEN <<>> ELSE Head(parts) \o Concat(Tail(parts))

OuStrings ==
    UNION { {Concat(ps) : ps \in [1..n -> OuParts]} : n \in 0..MaxParts }

\* A call of _detect_role is about to be made with some unit string
RoleInit ==
    /\ LoopInit
    /\ \A i \in Ids : ~locked[i] /\ ouOf[i] = S_ou \o S_uczniowie
    /\ ou_arg \in OuStrings
    /\ role_ret = "none"

\* The call returns
detect_role_call ==
    /\ role_ret = "none"
    /\ role_ret' = _detect_role(ou_arg)
    /\ UNCHANGED <<ou_arg, pc, connection, ouIdx, entries, email, dirVars,
                   stage, quota, expired, touched, cycleVars>>

RoleSpec == RoleInit /\ [][detect_role_call]_vars

----------------------------------------------------------------------------
(* MailboxManager called directly.  The loop calls create_mailbox and
   archive_mailbox only; delete_mailbox is public and has no caller.  Here
   each of the three coroutines is called for any uid, with the loop at rest:
   none of them looks at the mailbox it is called for, and delete_mailbox
   makes no check of the retention period (line 124 is a TODO). *)

ManagerInit ==
    /\ LoopInit
    /\ \A i \in Ids : ~locked[i] /\ ouOf[i] = S_ou \o S_uczniowie
    /\ ou_arg = <<>>
    /\ role_ret = "none"

create_mailbox_call ==
    /\ \E uid \in Ids, role \in {UCZEN, NAUCZYCIEL, ADMINISTRACJA, DYREKCJA} :
           create_mailbox(uid, role)
    /\ UNCHANGED <<callVars, pc, connection, ouIdx, entries, dirVars,
                   archCount, delCount, passes, failedQuery, failedIds,
                   startMail, startStage, edited, lockedAtQuery, errorResult>>

archive_mailbox_call ==
    /\ \E uid \in Ids : archive_mailbox(uid)
    /\ UNCHANGED <<callVars, pc, connection, ouIdx, entries, email, dirVars,
                   createCount, delCount, passes, failedQuery, failedIds,
                   startMail, startStage, edited, lockedAtQuery, errorResult>>

delete_mailbox_call ==
    /\ \E uid \in Ids : delete_mailbox(uid)
    /\ UNCHANGED <<callVars, pc, connection, ouIdx, entries, email, dirVars,
                   createCount, archCount, passes, failedQuery, failedIds,
                   startMail, startStage, edited, lockedAtQuery, errorResult>>

ManagerNext ==
    \/ create_mailbox_call
    \/ archive_mailbox_call
    \/ delete_mailbox_call
    \/ \E i \in Ids : RetentionElapses(i)

ManagerSpec == ManagerInit /\ [][ManagerNext]_vars

----------------------------------------------------------------------------
(* Shutdown *)

\* The process is told to stop (SIGTERM, or SIGINT raising KeyboardInterrupt).
\* watch_users installs no handler and catches only Exception (line 186), so
\* the coroutine ends wherever it is.
shutdown ==
    /\ pc \notin {"crashed", "stopped"}
    /\ pc' = "stopped"
    /\ UNCHANGED <<callVars, connection, ouIdx, entries, email, dirVars,
                   stage, quota, expired, touched, cycleVars>>

ShutdownNext == Next \/ shutdown

\* One directory layout is enough: where the loop can be stopped does not
\* depend on the units the entries are under
ShutdownInit ==
    /\ Init
    /\ ouOf = [anowak |-> S_ou \o S_administracja,
               jkowalski |-> S_ou \o S_dyrekcja]

ShutdownSpec == ShutdownInit /\ [][ShutdownNext]_vars

\* A step of the loop in which no call fails: nothing is raised (connect
\* does not end the coroutine, no call inside a pass jumps to line 190), a
\* search returns every entry that matches its filter, and modify applies
NoNewFailure ==
    /\ pc' # "crashed"
    /\ ~(/\ pc \in {"new_search", "new_create", "new_modify",
                    "disabled_search", "disabled_archive"}
         /\ pc' = "cycle_end")
    /\ pc = "new_search" =>
           Len(entries') = Cardinality(NewUsersFilter(watch_ous[ouIdx]))
    /\ pc = "disabled_search" =>
           Len(entries') = Cardinality(DisabledUsersFilter)
    /\ pc = "new_modify" => mail'[Head(entries)] = email
    /\ errorResult' => errorResult
    /\ failedQuery' \subseteq failedQuery
    /\ failedIds' \subseteq failedIds

\* The loop where every backend and directory call succeeds
ReliableWatchUsers == watch_users /\ NoNewFailure

\* The environment leaving alone the entries whose mailbox is archived
QuietEnv ==
    /\ Env
    /\ \A i \in Ids : stage[i] = "Archived" =>
           (mail'[i] = mail[i] /\ locked'[i] = locked[i])

ReliableNext == ReliableWatchUsers \/ QuietEnv

\* The behaviours in which nothing fails, nobody edits the entry of an
\* archived mailbox, and the loop is scheduled for as long as the process
\* lives
FairSpec == Init /\ [][ReliableNext]_vars /\ WF_vars(ReliableWatchUsers)

\* The behaviours in which the loop is scheduled for as long as the process
\* lives and every failure is transient: a call that is made again and again
\* succeeds again and again.
TransientSpec ==
    /\ Spec
    /\ WF_vars(watch_users)
    /\ SF_vars(connect /\ NoNewFailure)
    /\ \A k \in 1..Len(watch_ous) :
           SF_vars(_process_new_users_search /\ ouIdx = k /\ NoNewFailure)
    /\ SF_vars(_process_disabled_users_search /\ NoNewFailure)
    /\ \A i \in Ids :
           /\ SF_vars(_process_new_users_create /\ Head(entries) = i
                         /\ NoNewFailure)
           /\ SF_vars(_process_new_users_modify /\ Head(entries) = i
                         /\ NoNewFailure)
           /\ SF_vars(_process_disabled_users_archive /\ Head(entries) = i
                         /\ NoNewFailure)

----------------------------------------------------------------------------
(* Vocabulary of the properties *)

\* The entry lies under one of the watched organizational units
Watched(i) == \E k \in 1..Len(watch_ous) : ouOf[i] = watch_ous[k]

\* The cycle has reached line 190 and nothing failed in it: no call raised,
\* no search got an error result (an empty or a size-limited partial
\* answer), and no modify was left unapplied
CycleSucceeded ==
    /\ pc = "cycle_end"
    /\ failedQuery = {}
    /\ failedIds = {}
    /\ ~errorResult

----------------------------------------------------------------------------
(* C1 *)

\* C1: every watched identity that had no mail attribute when the cycle
\* started has, at the end of a cycle without failures, had create_mailbox
\* return for it and carries mail = uid@domain in the directory.
C1_ProvisionedAfterCycle ==
    CycleSucceeded =>
        \A i \in Ids :
            (Watched(i) /\ startMail[i] = {}) =>
                /\ createCount[i] >= 1
                /\ mail[i] = {<<i, "@", "zsel.opole.pl">>}

\* C1 for the entries that no other client touched: every watched identity
\* that had no mail attribute when the cycle started, and whose mail attribute
\* no other LDAP client changed during the cycle, has at the end of a cycle
\* without failures had create_mailbox return for it and carries
\* mail = uid@domain in the directory.
C1_ProvisionedUnlessEdited ==
    CycleSucceeded =>
        \A i \in Ids :
            (Watched(i) /\ startMail[i] = {} /\ i \notin edited) =>
                /\ createCount[i] >= 1
                /\ mail[i] = {<<i, "@", "zsel.opole.pl">>}

\* A cycle without failures has just provisioned a mail-less identity that
\* nobody else edited.
C1_Witness ==
    /\ CycleSucceeded
    /\ \E i \in Ids : /\ Watched(i) /\ startMail[i] = {} /\ i \notin edited
                      /\ startStage[i] = "Unprovisioned"
                      /\ createCount[i] = 1 /\ stage[i] = "Active"
                      /\ mail[i] = {<<i, "@", "zsel.opole.pl">>}

----------------------------------------------------------------------------
(* C2 *)

\* C2: archiving is idempotent.  A cycle without failures archives an
\* identity that its disabled search finds locked with a mail attribute, and
\* whose mailbox was Active, exactly once; and once a mailbox is Archived no
\* cycle over the unchanged directory entry calls archive_mailbox for it
\* again.
C2_ArchiveIdempotent ==
    [][\A i \in Ids :
         /\ (CycleSucceeded /\ i \in lockedAtQuery
                /\ startStage[i] = "Active") => archCount[i] = 1
         /\ (stage[i] = "Archived" /\ i \notin touched)
                => archCount'[i] <= archCount[i]]_vars

----------------------------------------------------------------------------
(* C3 *)

\* C3: when the search of the new-identities pass fails, the disabled pass
\* and the alias pass of the same cycle are still entered and every locked
\* identity with a mail attribute is still archived.
C3_QueryIsolation ==
    (pc = "cycle_end" /\ "new" \in failedQuery) =>
        /\ {"disabled", "aliases"} \subseteq passes
        /\ ("disabled" \notin failedQuery /\ failedIds = {}) =>
               \A i \in DisabledUsersFilter : archCount[i] >= 1

----------------------------------------------------------------------------
(* C4 *)

\* C4: when the backend or directory call of one identity fails (and no
\* search fails), every other candidate of the cycle is still processed:
\* the other mail-less watched identities are created, and the locked
\* identities with a mail attribute are archived.
C4_IdentityIsolation ==
    (pc = "cycle_end" /\ failedIds # {} /\ failedQuery = {} /\ ~errorResult) =>
        \A j \in Ids \ failedIds :
            /\ (Watched(j) /\ startMail[j] = {}) => createCount[j] >= 1
            /\ (locked[j] /\ mail[j] # {}) => archCount[j] >= 1

----------------------------------------------------------------------------
(* C5 *)

\* C5: no error stops the loop, a failure to connect included: watch_users
\* never ends.
C5_LoopNeverStops == pc # "crashed"

----------------------------------------------------------------------------
(* C6 *)

\* C6: within one cycle no identity has both create_mailbox and
\* archive_mailbox dispatched for it.
C6_NotBothInCycle ==
    \A i \in Ids : ~(createCount[i] >= 1 /\ archCount[i] >= 1)

----------------------------------------------------------------------------
(* C7 *)

\* C7: no step lowers a mailbox's stage (Unprovisioned < Active < Archived <
\* Deleted), and create_mailbox is never dispatched for a mailbox that is
\* Archived or Deleted.
C7_StageMonotonic ==
    [][\A i \in Ids :
         /\ Ord(stage'[i]) >= Ord(stage[i])
         /\ createCount'[i] > createCount[i]
                => stage[i] \notin {"Archived", "Deleted"}]_vars

----------------------------------------------------------------------------
(* C8 *)

\* C8: once create_mailbox has returned for an identity (its quota is set),
\* create_mailbox is never dispatched for it again.
C8_NoDoubleProvisioning ==
    [][\A i \in Ids : createCount'[i] > createCount[i] => quota[i] = 0]_vars

----------------------------------------------------------------------------
(* C9 *)

\* C9: delete_mailbox is dispatched only for a mailbox that is Archived and
\* whose retention period has run out; never for an Unprovisioned or Active
\* one, so never in the step that handles a disabled identity.
C9_DeleteOnlyAfterRetention ==
    [][\A i \in Ids :
         delCount'[i] > delCount[i]
             => (stage[i] = "Archived" /\ i \in expired)]_vars

\* The disabled pass has handled a locked identity whose mailbox was Active:
\* it is archived and not deleted.
C9_Witness ==
    \E i \in Ids : /\ locked[i] /\ startStage[i] = "Active"
                   /\ archCount[i] = 1 /\ stage[i] = "Archived"
                   /\ delCount[i] = 0

----------------------------------------------------------------------------
(* C10 *)

\* C10: a mailbox that is Archived with its retention period run out is
\* eventually Deleted.
C10_EventuallyDeleted ==
    \A i \in Ids :
        (stage[i] = "Archived" /\ i \in expired) ~> (stage[i] = "Deleted")

----------------------------------------------------------------------------
(* C11 *)

\* C11: a cycle that starts with an identity's mailbox Archived and its mail
\* attribute in place, and during which no other client changes that mail
\* attribute, dispatches no create_mailbox for it and leaves the mailbox out
\* of Active, whether the account is still locked or has been unlocked again.
C11_NoReactivation ==
    \A i \in Ids :
        (startStage[i] = "Archived" /\ startMail[i] # {} /\ i \notin edited) =>
            /\ createCount[i] = 0
            /\ stage[i] # "Active"

\* A whole cycle without failures has run over an identity that was archived
\* and then unlocked with its mail attribute in place: it is still Archived.
C11_Witness ==
    /\ CycleSucceeded
    /\ "aliases" \in passes
    /\ \E i \in Ids : /\ startStage[i] = "Archived" /\ i \in touched
                      /\ ~locked[i] /\ mail[i] # {} /\ startMail[i] = mail[i]
                      /\ i \notin edited
                      /\ stage[i] = "Archived"
                      /\ createCount[i] = 0 /\ archCount[i] = 0

----------------------------------------------------------------------------
(* C12 *)

\* The unit string of the call contains the keyword
Names(keyword) == Contains(keyword, ou_arg)

\* C12: _detect_role returns one of the four roles for every unit string: a
\* unit naming uczniowie gives UCZEN, nauczyciele NAUCZYCIEL, administracja
\* ADMINISTRACJA, dyrekcja DYREKCJA (for a unit naming several, the first of
\* them in this order), and a unit naming none of them gives UCZEN.
C12_RoleResolution ==
    role_ret # "none" =>
        /\ role_ret \in {"uczen", "nauczyciel", "administracja", "dyrekcja"}
        /\ Names(S_uczniowie) => role_ret = "uczen"
        /\ (Names(S_nauczyciele) /\ ~Names(S_uczniowie))
               => role_ret = "nauczyciel"
        /\ (Names(S_administracja) /\ ~Names(S_uczniowie)
               /\ ~Names(S_nauczyciele)) => role_ret = "administracja"
        /\ (Names(S_dyrekcja) /\ ~Names(S_uczniowie) /\ ~Names(S_nauczyciele)
               /\ ~Names(S_administracja)) => role_ret = "dyrekcja"
        /\ (~Names(S_uczniowie) /\ ~Names(S_nauczyciele)
               /\ ~Names(S_administracja) /\ ~Names(S_dyrekcja))
               => role_ret = "uczen"

\* The call has returned for a unit that names none of the four keywords,
\* although it holds most of one.
C12_Witness ==
    /\ role_ret = "uczen"
    /\ Contains(<<"u","c","z","n","i","o","w","i">>, ou_arg)
    /\ ~Names(S_uczniowie) /\ ~Names(S_nauczyciele)
    /\ ~Names(S_administracja) /\ ~Names(S_dyrekcja)

----------------------------------------------------------------------------
(* C13 *)

\* 1 GiB in the unit of `quota` (KiB)
GiB == 1024 * 1024

\* The quota the configuration gives to the role of a unit
QuotaOfUnit(ou) ==
    CASE ou = S_ou \o S_uczniowie     -> 1 * GiB
      [] ou = S_ou \o S_nauczyciele   -> 5 * GiB
      [] ou = S_ou \o S_administracja -> 10 * GiB
      [] ou = S_ou \o S_dyrekcja      -> 20 * GiB

\* The quota table covers every role with a quota above zero, and gives each
\* of the four units the quota of its role
QuotaTable ==
    /\ \A r \in UserRole : _get_quota(r) > 0
    /\ \A u \in {S_uczniowie, S_nauczyciele, S_administracja, S_dyrekcja} :
           _get_quota(_detect_role(S_ou \o u)) = QuotaOfUnit(S_ou \o u)

\* C13: every create_mailbox that returned was for uid@domain with the quota
\* of the role of the identity's unit (1, 5, 10, 20 GiB for uczniowie,
\* nauczyciele, administracja, dyrekcja); the quota table covers every role
\* with a quota above zero.
C13_QuotaOfRole ==
    /\ \A i \in Ids : quota[i] # 0 => quota[i] = QuotaOfUnit(ouOf[i])
    /\ pc = "new_modify" =>
           /\ email = {<<Head(entries), "@", "zsel.opole.pl">>}
           /\ quota[Head(entries)] = QuotaOfUnit(watch_ous[ouIdx])
    /\ QuotaTable

\* create_mailbox has just returned for a teacher, with 5 GiB.
C13_Witness ==
    /\ pc = "new_modify"
    /\ ouOf[Head(entries)] = S_ou \o S_nauczyciele
    /\ createCount[Head(entries)] = 1
    /\ quota[Head(entries)] = 5 * 1024 * 1024

----------------------------------------------------------------------------
(* C14 *)

\* C14: the loop never exits on a shutdown signal between the return of
\* create_mailbox for an identity and the write of its mail attribute (the
\* loop is at line 214 exactly when create_mailbox has returned and
\* _update_mail_attribute has not been called yet).
C14_CooperativeShutdown ==
    [][(pc' = "stopped" /\ pc # "stopped") => pc # "new_modify"]_vars

----------------------------------------------------------------------------
(* C15 *)

\* C15: a step of the loop changes the mail attribute of an identity only
\* when create_mailbox has returned for that identity in the same cycle, and
\* then to the address it returned; and when create_mailbox fails for an
\* identity, the loop leaves its directory entry as it was: still without
\* mail, unless another client wrote one, so the search of the next cycle
\* matches it again.
C15_WriteOnlyAfterCreate ==
    [][watch_users =>
         \A i \in Ids :
           /\ mail'[i] # mail[i] =>
                  /\ pc = "new_modify" /\ Head(entries) = i
                  /\ createCount[i] >= 1
                  /\ email = {<<i, "@", "zsel.opole.pl">>}
                  /\ mail'[i] = email
           /\ (pc = "new_create" /\ Head(entries) = i /\ pc' = "cycle_end") =>
                  /\ mail'[i] = mail[i] /\ locked'[i] = locked[i]
                  /\ ouOf'[i] = ouOf[i]
                  /\ createCount'[i] = createCount[i]
                  /\ i \notin edited => mail'[i] = {}]_vars

\* The loop has written the address that create_mailbox returned in this
\* cycle, and the cycle goes on.
C15_Witness ==
    /\ pc \in {"new_search", "new_create", "disabled_search"}
    /\ \E i \in Ids : /\ startMail[i] = {} /\ createCount[i] = 1
                      /\ mail[i] = {<<i, "@", "zsel.opole.pl">>}

----------------------------------------------------------------------------
(* C16 *)

\* C16: when the loop is scheduled fairly and every failure is transient,
\* every identity under a watched unit that has no mail attribute eventually
\* has one (written by the loop after provisioning it, unless an
\* administrator sets it first).
C16_EventuallyProvisioned ==
    \A i \in Ids : (Watched(i) /\ mail[i] = {}) ~> (mail[i] # {})

----------------------------------------------------------------------------
(* C17 *)

\* Where the loop stands: in which pass of a cycle, or between cycles
NewPass      == {"new_search", "new_create", "new_modify"}
DisabledPass == {"disabled_search", "disabled_archive"}

\* The statement the loop is at is the last one of _process_new_users
LastOfNewPass ==
    /\ ouIdx = Len(watch_ous)
    /\ \/ pc = "new_search"
       \/ pc = "new_modify" /\ Tail(entries) = <<>>

\* The statement the loop is at is the last one of _process_disabled_users
LastOfDisabledPass ==
    \/ pc = "disabled_search"
    \/ pc = "disabled_archive" /\ Tail(entries) = <<>>

\* C17: cycles never overlap. A cycle's first pass is entered only from the
\* start of the loop or from the completed sleep; the second pass only from
\* the last statement of the first, the third only from the last statement
\* of the second; the sleep is entered only from the end of a cycle, which is
\* reached only when the third pass has finished or an error aborted the
\* cycle; and while the loop sleeps no pass has a result list or an address
\* in hand.
C17_NoOverlap ==
    [][/\ (pc' \in NewPass /\ pc \notin NewPass) =>
              /\ pc \in {"init", "sleep"}
              /\ pc' = "new_search" /\ ouIdx' = 1 /\ passes' = {"new"}
       /\ (pc' \in DisabledPass /\ pc \notin DisabledPass) =>
              /\ LastOfNewPass
              /\ pc' = "disabled_search"
       /\ (pc' = "aliases" /\ pc # "aliases") => LastOfDisabledPass
       /\ (pc' = "cycle_end" /\ pc # "cycle_end") =>
              \/ pc = "aliases" /\ passes = {"new", "disabled", "aliases"}
              \/ /\ pc \in NewPass \cup DisabledPass
                 /\ (failedQuery' # {} \/ failedIds' # {})
       /\ (pc' = "sleep" /\ pc # "sleep") => pc = "cycle_end"
       /\ pc' = "sleep" => passes' = {} /\ entries' = <<>> /\ email' = {}]_vars

\* A second cycle has started its first pass after an earlier cycle
\* provisioned a mailbox and the sleep completed.
C17_Witness ==
    /\ pc = "new_search" /\ ouIdx = 1 /\ passes = {"new"}
    /\ createCount = Zero
    /\ \E i \in Ids : startStage[i] = "Active"

----------------------------------------------------------------------------
(* C18 *)

\* C18: archive_mailbox is dispatched for an identity, and a mailbox becomes
\* Archived, only in the disabled pass and only for an entry that was locked
\* and had a mail attribute when the disabled search of that cycle was
\* answered; an entry that was unlocked or had no mail attribute then is not
\* archived in that cycle.
C18_ArchiveOnlyLockedWithMail ==
    [][\A i \in Ids :
         (\/ archCount'[i] > archCount[i]
          \/ stage'[i] = "Archived" /\ stage[i] # "Archived") =>
             /\ pc = "disabled_archive" /\ Head(entries) = i
             /\ i \in lockedAtQuery]_vars

\* The disabled pass has finished: it archived the locked identity and left
\* alone one that has a mail attribute and is not locked.
C18_Witness ==
    /\ pc = "aliases"
    /\ \E i, j \in Ids :
          /\ archCount[i] = 1 /\ i \in lockedAtQuery
          /\ archCount[j] = 0 /\ j \notin lockedAtQuery
          /\ ~locked[j] /\ mail[j] # {} /\ j \notin edited
          /\ stage[j] = "Active"

----------------------------------------------------------------------------
(* C19 *)

\* The role that _process_new_users derives from each of the watch_ous
RoleOfWatched == [k \in 1..Len(watch_ous) |-> _detect_role(watch_ous[k])]

\* C19: create_mailbox is dispatched only for an identity found under one of
\* the watch_ous, with the role derived from that unit; with the default
\* watch_ous an identity under ou=dyrekcja is never provisioned, and no
\* dispatch carries the role DYREKCJA.
C19_ConfinedToWatchedUnits ==
    /\ pc \in {"new_create", "new_modify"} =>
           /\ ouOf[Head(entries)] = watch_ous[ouIdx]
           /\ RoleOfWatched[ouIdx] # DYREKCJA
    /\ \A i \in Ids :
           /\ (createCount[i] >= 1 \/ quota[i] # 0 \/ stage[i] = "Active") =>
                  /\ \E k \in 1..Len(watch_ous) :
                         /\ ouOf[i] = watch_ous[k]
                         /\ quota[i] = _get_quota(RoleOfWatched[k])
                  /\ quota[i] # _get_quota(DYREKCJA)
           /\ ouOf[i] = S_ou \o S_dyrekcja =>
                  /\ stage[i] # "Active" /\ quota[i] = 0
                  /\ createCount[i] = 0
    /\ \A k \in 1..Len(watch_ous) : RoleOfWatched[k] # DYREKCJA

\* A cycle has gone through all three passes and provisioned the identity
\* under ou=administracja, while the one under ou=dyrekcja, which has no
\* mail attribute either, was left without a mailbox.
C19_Witness ==
    /\ pc = "cycle_end" /\ passes = {"new", "disabled", "aliases"}
    /\ \E i, j \in Ids :
          /\ ouOf[i] = S_ou \o S_administracja /\ createCount[i] = 1
          /\ quota[i] = _get_quota(ADMINISTRACJA)
          /\ ouOf[j] = S_ou \o S_dyrekcja /\ mail[j] = {}
          /\ stage[j] = "Unprovisioned"

=============================================================================
